---- MODULE Spec2Model ----
(***************************************************************************)
(* Model of src/script.js: the 24-month sales-simulation engine            *)
(* (applyDiscount, the two escalation functions, calcCashflowForUnit,      *)
(* calcTIR, calcPayback, calcROI, runSimulation and the save handler).     *)
(*                                                                         *)
(* JavaScript numbers are modelled as exact rationals <<n, d>> with d > 0  *)
(* in lowest terms, extended with the three IEEE specials the code can     *)
(* produce: <<1, 0>> = Infinity, <<-1, 0>> = -Infinity, <<0, 0>> = NaN.    *)
(* Rounding of binary floating point is abstracted away.                   *)
(***************************************************************************)
EXTENDS Integers, Sequences, FiniteSets, TLC

VARIABLES
    config,       \* state.config                      (script.js:10-23)
    units,        \* state.units, the list of valor    (script.js:9, 43-47)
    chart,        \* state.chart: the data it draws    (script.js:24, 209-218)
    receitaTotal, \* #receitaTotal                     (script.js:175)
    payback,      \* #payback                          (script.js:180)
    roi,          \* #roi                              (script.js:181)
    pc,           \* position of the call under study
    unit,         \* argument unit.valor of calcCashflowForUnit
    catIdx,       \* argument catIdx
    basePrice,    \* value returned by applyDiscount
    cashFlow,     \* array returned by calcCashflowForUnit
    flows,        \* argument of calcTIR / calcPayback / calcROI
    rate,         \* calcTIR: rate, in hundredths
    iter,         \* calcTIR: loop counter i
    result        \* value returned by calcPayback / calcROI

vars == <<config, units, chart, receitaTotal, payback, roi, pc,
          unit, catIdx, basePrice, cashFlow, flows, rate, iter, result>>

-----------------------------------------------------------------------------
(* JavaScript numbers *)

Abs(x) == IF x < 0 THEN -x ELSE x
Sgn(x) == IF x > 0 THEN 1 ELSE IF x < 0 THEN -1 ELSE 0

RECURSIVE Gcd(_, _)
Gcd(a, b) == IF b = 0 THEN a ELSE Gcd(b, a % b)

Norm(n, d) ==
    IF d = 0 THEN <<Sgn(n), 0>>
    ELSE LET g == Gcd(Abs(n), Abs(d))
         IN  <<Sgn(d) * (n \div g), Abs(d) \div g>>

R(x)   == <<x, 1>>
Zero   == <<0, 1>>
One    == <<1, 1>>
NaN    == <<0, 0>>
PosInf == <<1, 0>>
NegInf == <<-1, 0>>

IsNaN(a)    == a = NaN
IsFinite(a) == a[2] # 0

Neg(a) == <<-a[1], a[2]>>

Add(a, b) ==
    IF IsNaN(a) \/ IsNaN(b) THEN NaN
    ELSE IF ~IsFinite(a) THEN (IF ~IsFinite(b) /\ b # a THEN NaN ELSE a)
    ELSE IF ~IsFinite(b) THEN b
    ELSE LET g == Gcd(a[2], b[2])
         IN  Norm(a[1] * (b[2] \div g) + b[1] * (a[2] \div g), (a[2] \div g) * b[2])

Sub(a, b) == Add(a, Neg(b))

Mul(a, b) ==
    IF IsNaN(a) \/ IsNaN(b) THEN NaN
    ELSE IF ~IsFinite(a) \/ ~IsFinite(b) THEN <<Sgn(a[1]) * Sgn(b[1]), 0>>
    ELSE IF a[1] = 0 \/ b[1] = 0 THEN Zero
    ELSE LET g1 == Gcd(Abs(a[1]), b[2])
             g2 == Gcd(Abs(b[1]), a[2])
         IN  <<(a[1] \div g1) * (b[1] \div g2), (a[2] \div g2) * (b[2] \div g1)>>

Inv(a) ==
    IF IsNaN(a) THEN NaN
    ELSE IF ~IsFinite(a) THEN Zero
    ELSE IF a[1] = 0 THEN PosInf
    ELSE <<Sgn(a[1]) * a[2], Abs(a[1])>>

Div(a, b) == Mul(a, Inv(b))

\* a < b, false when either is NaN
Lt(a, b) ==
    /\ ~IsNaN(a) /\ ~IsNaN(b) /\ a # b
    /\ IF ~IsFinite(a) THEN a = NegInf
       ELSE IF ~IsFinite(b) THEN b = PosInf
       ELSE Sub(a, b)[1] < 0
Gt(a, b)  == Lt(b, a)
Leq(a, b) == ~IsNaN(a) /\ ~IsNaN(b) /\ ~Lt(b, a)
Geq(a, b) == Leq(b, a)

RECURSIVE PowNat(_, _)
PowNat(b, e) == IF e = 0 THEN One ELSE Mul(b, PowNat(b, e - 1))

\* Math.pow for an integer exponent
Pow(b, e) == IF e >= 0 THEN PowNat(b, e) ELSE Inv(PowNat(b, -e))

-----------------------------------------------------------------------------
(* JavaScript arrays: a function from the keys written so far to numbers.  *)

NumMonths == 24
Months    == 0 .. (NumMonths - 1)

NewArray == [m \in Months |-> Zero]

\* a[idx] += x : reading a key that does not exist gives undefined, and
\* undefined + x is NaN; the assignment creates the key.
\* a[idx] = x in place of a[idx] += x
AddAtOverwrite(a, idx, x) == (idx :> x) @@ a

AddAt(a, idx, x) ==
    (idx :> (IF idx \in DOMAIN a THEN Add(a[idx], x) ELSE NaN)) @@ a

\* a.length
Length(a) ==
    LET nat == {k \in DOMAIN a : k >= 0}
        c   == Cardinality(nat)
    IN  IF nat = 0 .. (c - 1) THEN c
        ELSE (CHOOSE k \in nat : \A j \in nat : j <= k) + 1

-----------------------------------------------------------------------------
(* 1. state.config *)

DefaultConfig ==
    [ incc |-> <<9, 2000>>, ipca |-> <<1, 200>>,
      entradaPct |-> 30, entradaMonths |-> 6,
      payAtoPct |-> 0, payInterPct |-> 0, payInterMonth |-> 6,
      payChavesPct |-> 0,
      preLaunchMonths |-> 2, launchMonths |-> 3,
      discountPre |-> 10, discountLaunch |-> 5 ]

LoadedUnits == <<300000, 320000, 500000>>

-----------------------------------------------------------------------------
(* 4. financial calculations *)

\* applyDiscount with <= in place of < in both comparisons
applyDiscountLeq(cfg, unitValue, idx) ==
    IF idx <= cfg.preLaunchMonths
    THEN Mul(unitValue, Sub(One, Div(R(cfg.discountPre), R(100))))
    ELSE IF idx <= cfg.preLaunchMonths + cfg.launchMonths
    THEN Mul(unitValue, Sub(One, Div(R(cfg.discountLaunch), R(100))))
    ELSE unitValue

\* applyDiscount with the factor written discount / 100 - 1
applyDiscountSignSlip(cfg, unitValue, idx) ==
    IF idx < cfg.preLaunchMonths
    THEN Mul(unitValue, Sub(Div(R(cfg.discountPre), R(100)), One))
    ELSE IF idx < cfg.preLaunchMonths + cfg.launchMonths
    THEN Mul(unitValue, Sub(Div(R(cfg.discountLaunch), R(100)), One))
    ELSE unitValue

applyDiscount(cfg, unitValue, idx) ==
    IF idx < cfg.preLaunchMonths
    THEN Mul(unitValue, Sub(One, Div(R(cfg.discountPre), R(100))))
    ELSE IF idx < cfg.preLaunchMonths + cfg.launchMonths
    THEN Mul(unitValue, Sub(One, Div(R(cfg.discountLaunch), R(100))))
    ELSE unitValue

\* initialValue * Math.pow(1 + rate, monthIdx).  A zero amount times a
\* finite power is zero; the power is then not expanded.
Escalate(initialValue, r, monthIdx) ==
    LET base == Add(One, r)
    IN  IF initialValue = Zero /\ (monthIdx >= 0 \/ base # Zero)
        THEN Zero
        ELSE Mul(initialValue, Pow(base, monthIdx))

updateValueByINCC(cfg, initialValue, monthIdx) ==
    Escalate(initialValue, cfg.incc, monthIdx)

updateValueByIPCA(cfg, initialValue, monthIdx) ==
    Escalate(initialValue, cfg.ipca, monthIdx)

monthChaves == 23

\* the entrada loop as do { ... } while (++m <= entradaMonths): the body runs
\* before the bound is tested
EntradaLoopDoWhile(a, last, entradaMensal) ==
    LET written == 1 .. (IF last < 1 THEN 1 ELSE last)
        present == DOMAIN a
    IN  [m \in present \cup written |->
            IF m \notin written THEN a[m]
            ELSE IF m \in present THEN Add(a[m], entradaMensal) ELSE NaN] @@ <<>>

\* for (let m = 1; m <= cfg.entradaMonths; m++) cashFlow[m] += entradaMensal
\* : the body runs once for every m in 1 .. last, each on its own index.
EntradaLoop(a, last, entradaMensal) ==
    LET written == 1 .. last
        present == DOMAIN a
    IN  [m \in present \cup written |->
            IF m \notin written THEN a[m]
            ELSE IF m \in present THEN Add(a[m], entradaMensal) ELSE NaN] @@ <<>>

InterLeg(cfg, a, payInter) ==
    IF cfg.payInterPct > 0
    THEN AddAt(a, cfg.payInterMonth,
               updateValueByINCC(cfg, payInter, cfg.payInterMonth))
    ELSE a

calcCashflowForUnit(cfg, valor, idx) ==
    LET price         == applyDiscount(cfg, valor, idx)
        entradaTotal  == Mul(Div(R(cfg.entradaPct), R(100)), price)
        payAto        == Mul(Div(R(cfg.payAtoPct), R(100)), price)
        payInter      == Mul(Div(R(cfg.payInterPct), R(100)), price)
        payChaves     == Mul(Div(R(cfg.payChavesPct), R(100)), price)
        entradaMensal == Div(entradaTotal, R(cfg.entradaMonths))
        a0 == AddAt(NewArray, 0, payAto)
        a1 == EntradaLoop(a0, cfg.entradaMonths, entradaMensal)
        a2 == InterLeg(cfg, a1, payInter)
    IN  AddAt(a2, monthChaves, updateValueByIPCA(cfg, payChaves, monthChaves))

-----------------------------------------------------------------------------
(* Natural numbers of any size, least significant limb first: the net      *)
(* present value over 24 months does not fit a machine integer.            *)

Base == 100 * 100

RECURSIVE BFromInt(_)
BFromInt(n) == IF n = 0 THEN <<>> ELSE <<n % Base>> \o BFromInt(n \div Base)

RECURSIVE BAddC(_, _, _)
BAddC(x, y, c) ==
    IF x = <<>> /\ y = <<>> THEN BFromInt(c)
    ELSE LET hx == IF x = <<>> THEN 0 ELSE Head(x)
             hy == IF y = <<>> THEN 0 ELSE Head(y)
             tx == IF x = <<>> THEN <<>> ELSE Tail(x)
             ty == IF y = <<>> THEN <<>> ELSE Tail(y)
             s  == hx + hy + c
         IN  <<s % Base>> \o BAddC(tx, ty, s \div Base)

BAdd(x, y) == BAddC(x, y, 0)

RECURSIVE BMulSmallC(_, _, _)
BMulSmallC(x, m, c) ==
    IF x = <<>> THEN BFromInt(c)
    ELSE LET p == Head(x) * m + c
         IN  <<p % Base>> \o BMulSmallC(Tail(x), m, p \div Base)

\* x * m for 0 <= m < Base
BMulSmall(x, m) == IF m = 0 THEN <<>> ELSE BMulSmallC(x, m, 0)

RECURSIVE BMul(_, _)
BMul(x, y) ==
    IF x = <<>> \/ y = <<>> THEN <<>>
    ELSE BAdd(BMulSmall(x, Head(y)), <<0>> \o BMul(x, Tail(y)))

RECURSIVE BLessFrom(_, _, _)
BLessFrom(x, y, i) ==
    IF i = 0 THEN FALSE
    ELSE IF x[i] # y[i] THEN x[i] < y[i]
    ELSE BLessFrom(x, y, i - 1)

BLess(x, y) ==
    IF Len(x) # Len(y) THEN Len(x) < Len(y) ELSE BLessFrom(x, y, Len(x))

-----------------------------------------------------------------------------
(* Reading arrays *)

\* the elements forEach / reduce visit: the keys below length that exist
Elems(a) == LET n == Length(a) IN {k \in DOMAIN a : k >= 0 /\ k < n}

\* a[i] used as a number: a missing element is undefined, which adds as NaN
Get(a, i) == IF i \in DOMAIN a THEN a[i] ELSE NaN

\* the array literal with the elements of a sequence
ArrayOf(s) == [k \in 0 .. (Len(s) - 1) |-> s[k + 1]]

RECURSIVE SumUpTo(_, _)
\* the accumulator of a.reduce((x, y) => x + y, 0) after the first n indices
SumUpTo(a, n) ==
    IF n = 0 THEN Zero
    ELSE IF (n - 1) \in DOMAIN a THEN Add(SumUpTo(a, n - 1), a[n - 1])
    ELSE SumUpTo(a, n - 1)

Sum(a) == SumUpTo(a, Length(a))

-----------------------------------------------------------------------------
(* calcTIR.  rate is kept in hundredths: rate = k means k / 100.           *)

InitialRate == 1
maxIter     == 200
TolInv      == 1000000
RateFloor   == -99

Lcm(x, y) == (x \div Gcd(x, y)) * y

RECURSIVE LcmDen(_, _, _)
LcmDen(a, i, l) ==
    IF i >= Length(a) THEN l
    ELSE LcmDen(a, i + 1,
                IF i \in DOMAIN a /\ IsFinite(a[i]) THEN Lcm(l, a[i][2]) ELSE l)

\* Sum of the elements that are not finite (NaN, Infinity): NaN as soon as
\* one is NaN or two infinities of opposite sign meet, Zero when all are
\* finite.
RECURSIVE Specials(_, _, _)
Specials(a, i, acc) ==
    IF i >= Length(a) THEN acc
    ELSE Specials(a, i + 1,
                  IF i \in DOMAIN a /\ ~IsFinite(a[i]) THEN Add(acc, a[i]) ELSE acc)

\* The exact value of cashflows.reduce((acc, v, idx) =>
\*     acc + v / Math.pow(1 + rate, idx), 0)  at rate = k / 100, as
\* (P - M) / D with P, M, D natural numbers:
\*   v_idx / (b/100)^idx = c_idx * 100^idx * b^(n-1-idx) / (L * b^(n-1)),
\* where b = 100 + k, v_idx = c_idx / L and n is the length.
RECURSIVE NpvAcc(_, _, _, _, _, _, _, _)
NpvAcc(a, i, b, l, P, M, apow, bpow) ==
    IF i >= Length(a) THEN [P |-> P, M |-> M, D |-> BMul(BFromInt(l), bpow)]
    ELSE LET c  == IF i \in DOMAIN a /\ IsFinite(a[i])
                   THEN a[i][1] * (l \div a[i][2]) ELSE 0
             t  == BMul(apow, BFromInt(Abs(c)))
             P1 == BMulSmall(P, b)
             M1 == BMulSmall(M, b)
         IN  NpvAcc(a, i + 1, b, l,
                    IF c > 0 THEN BAdd(P1, t) ELSE P1,
                    IF c < 0 THEN BAdd(M1, t) ELSE M1,
                    BMulSmall(apow, 100),
                    IF i = 0 THEN bpow ELSE BMulSmall(bpow, b))

Npv(a, k) == NpvAcc(a, 0, 100 + k, LcmDen(a, 0, 1), <<>>, <<>>, <<1>>, <<1>>)

\* Math.abs(npv) < tolerance
NpvSmall(a, k) ==
    /\ Specials(a, 0, Zero) = Zero
    /\ LET v == Npv(a, k)
           hi == IF BLess(v.P, v.M) THEN v.M ELSE v.P
           lo == IF BLess(v.P, v.M) THEN v.P ELSE v.M
       IN  BLess(BMul(hi, BFromInt(TolInv)), BAdd(BMul(lo, BFromInt(TolInv)), v.D))

\* npv < 0 in place of npv > 0
NpvPositiveFlipped(a, k) ==
    LET sp == Specials(a, 0, Zero)
    IN  IF sp # Zero THEN sp = NegInf
        ELSE LET v == Npv(a, k) IN BLess(v.P, v.M)

\* npv > 0
NpvPositive(a, k) ==
    LET sp == Specials(a, 0, Zero)
    IN  IF sp # Zero THEN sp = PosInf
        ELSE LET v == Npv(a, k) IN BLess(v.M, v.P)

Max(x, y) == IF x >= y THEN x ELSE y

\* the step without the clamp
StepRateNoFloor(a, k) == k + (IF NpvPositive(a, k) THEN 1 ELSE -1)

\* rate += npv > 0 ? 0.01 : -0.01; rate = Math.max(rate, -0.99)
StepRate(a, k) == Max(k + (IF NpvPositive(a, k) THEN 1 ELSE -1), RateFloor)

-----------------------------------------------------------------------------
(* Summary metrics *)

\* the loop with acc > 0 in place of acc >= 0
RECURSIVE PaybackFromStrict(_, _, _)
PaybackFromStrict(a, i, acc) ==
    IF i >= Length(a) THEN Length(a)
    ELSE LET acc1 == Add(acc, Get(a, i))
         IN  IF Gt(acc1, Zero) THEN i ELSE PaybackFromStrict(a, i + 1, acc1)

RECURSIVE PaybackFrom(_, _, _)
PaybackFrom(a, i, acc) ==
    IF i >= Length(a) THEN Length(a)
    ELSE LET acc1 == Add(acc, Get(a, i))
         IN  IF Geq(acc1, Zero) THEN i ELSE PaybackFrom(a, i + 1, acc1)

calcPayback(a) == PaybackFrom(a, 0, Zero)

\* Math.min(...flows): Infinity for no argument, NaN if any argument is NaN
RECURSIVE MinFrom(_, _, _)
MinFrom(a, i, acc) ==
    IF i >= Length(a) THEN acc
    ELSE LET v == Get(a, i)
         IN  MinFrom(a, i + 1,
                     IF IsNaN(acc) \/ IsNaN(v) THEN NaN
                     ELSE IF Lt(v, acc) THEN v ELSE acc)

Floor(n, d) == n \div d

\* toFixed(2) cutting the digits after the second instead of rounding
ToFixed2Truncate(x) == Sgn(x[1]) * Floor(Abs(x[1]) * 100, x[2])

\* x.toFixed(2) of a finite x, as the signed count of hundredths it prints:
\* the nearest hundredth, the larger magnitude on a tie.
ToFixed2(x) ==
    LET n == Abs(x[1]) * 100
        q == Floor(2 * n + x[2], 2 * x[2])
    IN  Sgn(x[1]) * q

\* The two kinds of value calcROI returns: the number 0, or the string that
\* toFixed(2) prints (hundredths = its value times 100; "NaN" and
\* "Infinity" print as themselves).
NumberResult(v) == [kind |-> "number", value |-> v, hundredths |-> 0]
StringResult(x) ==
    IF IsFinite(x)
    THEN [kind |-> "string", value |-> Zero, hundredths |-> ToFixed2(x)]
    ELSE [kind |-> "string", value |-> x, hundredths |-> 0]

calcROI(a) ==
    LET total    == Sum(a)
        invested == Neg(MinFrom(a, 0, PosInf))
    IN  IF Leq(invested, Zero) THEN NumberResult(Zero)
        ELSE StringResult(Mul(Div(total, invested), R(100)))

-----------------------------------------------------------------------------
(* 6. runSimulation *)

\* allFlows[m] = v in place of allFlows[m] += v
AddFlowOverwrite(all, flow) ==
    LET visited == Elems(flow)
    IN  [m \in (DOMAIN all) \cup visited |->
            IF m \in visited THEN flow[m] ELSE all[m]] @@ <<>>

\* flow.forEach((v, m) => { allFlows[m] += v; }) : the callback runs once
\* on every element of flow, so each index is updated once, as in AddAt.
AddFlow(all, flow) ==
    LET visited == Elems(flow)
        present == DOMAIN all
    IN  [m \in present \cup visited |->
            IF m \notin visited THEN all[m]
            ELSE IF m \in present THEN Add(all[m], flow[m]) ELSE NaN] @@ <<>>

\* state.units.forEach((u, idx) => { ... }) : allFlows after the first n units
RECURSIVE Aggregate(_, _, _)
Aggregate(cfg, us, n) ==
    IF n = 0 THEN NewArray
    ELSE AddFlow(Aggregate(cfg, us, n - 1),
                 calcCashflowForUnit(cfg, R(us[n]), n - 1))

allFlowsOf(cfg, us) == Aggregate(cfg, us, Len(us))

\* The summary runSimulation leaves behind.  The #tir text comes from
\* calcTIR, which only reads allFlows; its loop is followed step by step
\* under SpecTIR and its text is not carried here.
runSimulation(cfg, us) ==
    LET allFlows == allFlowsOf(cfg, us)
    IN  [ receitaTotal |-> Sum(allFlows),
          payback      |-> calcPayback(allFlows),
          roi          |-> calcROI(allFlows),
          chart        |-> allFlows ]

-----------------------------------------------------------------------------
(* Bounds of the model *)

MaxMonth  == 25   \* entradaMonths in 0..MaxMonth, payInterMonth in -1..MaxMonth
MaxCatIdx == 5    \* catIdx in 0..MaxCatIdx
MaxPhase  == 3    \* preLaunchMonths and launchMonths in 0..MaxPhase
MaxLen    == 3    \* vectors given to calcPayback / calcROI: at most MaxLen
MaxVal    == 2    \* ... entries, each in -MaxVal..MaxVal
TirMaxLen == 2    \* vectors given to calcTIR: at most TirMaxLen entries,
TirMaxVal == 1    \* ... each in -TirMaxVal..TirMaxVal
MaxAmount == 3    \* A in 1..MaxAmount for the vectors -A, 0, ..., 0, +A
MaxUnits  == 1    \* enumerated unit lists have at most MaxUnits units

-----------------------------------------------------------------------------
(* The program: the state object, init() and the click on #saveCfgBtn.    *)
(* loadUnits fills state.units with a fixed list standing for what a       *)
(* backend would send; the model lets init() load any list of UnitLists.   *)

UnitValues == {300000, 500000}

UnitLists ==
    {LoadedUnits} \cup UNION {[1 .. n -> UnitValues] : n \in 0 .. MaxUnits}

\* what the form can hold when it is saved
CfgSet ==
    [ incc : {R(0), R(1)}, ipca : {R(0), R(-2)},
      entradaPct : {30}, entradaMonths : {0, 6, 23},
      payAtoPct : {10}, payInterPct : {0, 20}, payInterMonth : {2},
      payChavesPct : {70},
      preLaunchMonths : {2}, launchMonths : {3},
      discountPre : {10, 150}, discountLaunch : {5} ]

NoCall ==
    /\ unit = Zero /\ catIdx = 0 /\ basePrice = Zero
    /\ cashFlow = NewArray /\ flows = <<>> /\ rate = InitialRate /\ iter = 0
    /\ result = NumberResult(Zero)

\* const state = { units: [], config: {...}, chart: null }
Init ==
    /\ pc = "new"
    /\ units = <<>>
    /\ config = DefaultConfig
    /\ chart = <<>>
    /\ receitaTotal = Zero /\ payback = 0 /\ roi = NumberResult(Zero)
    /\ NoCall

Show(cfg, us) ==
    \E r \in {runSimulation(cfg, us)} :
        /\ receitaTotal' = r.receitaTotal
        /\ payback' = r.payback
        /\ roi' = r.roi
        /\ chart' = r.chart

\* init(): loadUnits(); bindEvents(); renderTable(); runSimulation()
init(us) ==
    /\ pc = "new"
    /\ units' = us
    /\ Show(config, us)
    /\ pc' = "idle"
    /\ UNCHANGED <<config, unit, catIdx, basePrice, cashFlow, flows, rate,
                   iter, result>>

\* click on #saveCfgBtn: Object.assign(state.config, ...); renderTable();
\* runSimulation()
SaveCfg(cfg) ==
    /\ pc = "idle"
    /\ config' = cfg
    /\ Show(cfg, units)
    /\ UNCHANGED <<units, pc, unit, catIdx, basePrice, cashFlow, flows, rate,
                   iter, result>>

Next ==
    \/ \E us \in UnitLists : init(us)
    \/ \E cfg \in CfgSet : SaveCfg(cfg)

Spec == Init /\ [][Next]_vars

-----------------------------------------------------------------------------
(* calcCashflowForUnit and applyDiscount called on any unit and config *)

CfgSetUnit ==
    [ incc : {R(0), R(-2)}, ipca : {R(0), R(-2)},
      entradaPct : {30}, entradaMonths : 0 .. MaxMonth,
      payAtoPct : {10}, payInterPct : {0, 20}, payInterMonth : -1 .. MaxMonth,
      payChavesPct : {70},
      preLaunchMonths : {2}, launchMonths : {3},
      discountPre : {10}, discountLaunch : {5} ]

ProgramAtRest ==
    /\ units = <<>> /\ chart = <<>> /\ receitaTotal = Zero
    /\ payback = 0 /\ roi = NumberResult(Zero)

NoFlows ==
    /\ flows = <<>> /\ rate = InitialRate /\ iter = 0
    /\ result = NumberResult(Zero)

InitUnit ==
    /\ config \in CfgSetUnit
    /\ unit = R(300000)
    /\ catIdx \in {0, MaxCatIdx}
    /\ pc = "start" /\ basePrice = Zero /\ cashFlow = NewArray
    /\ NoFlows /\ ProgramAtRest

CallCashflow ==
    /\ pc = "start"
    /\ cashFlow' = calcCashflowForUnit(config, unit, catIdx)
    /\ pc' = "built"
    /\ UNCHANGED <<config, units, chart, receitaTotal, payback, roi, unit,
                   catIdx, basePrice, flows, rate, iter, result>>

NextUnit == CallCashflow

SpecUnit == InitUnit /\ [][NextUnit]_vars

CfgSetDiscount ==
    [ incc : {R(0)}, ipca : {R(0)},
      entradaPct : {30}, entradaMonths : {6},
      payAtoPct : {0}, payInterPct : {0}, payInterMonth : {6},
      payChavesPct : {70},
      preLaunchMonths : 0 .. MaxPhase, launchMonths : 0 .. MaxPhase,
      discountPre : {0, 10, 100}, discountLaunch : {5, 10} ]

InitDiscount ==
    /\ config \in CfgSetDiscount
    /\ unit \in {R(0), R(300000), R(1)}
    /\ catIdx \in 0 .. MaxCatIdx
    /\ pc = "start" /\ basePrice = Zero /\ cashFlow = NewArray
    /\ NoFlows /\ ProgramAtRest

CallApplyDiscount ==
    /\ pc = "start"
    /\ basePrice' = applyDiscount(config, unit, catIdx)
    /\ pc' = "discounted"
    /\ UNCHANGED <<config, units, chart, receitaTotal, payback, roi, unit,
                   catIdx, cashFlow, flows, rate, iter, result>>

NextDiscount == CallApplyDiscount

SpecDiscount == InitDiscount /\ [][NextDiscount]_vars

-----------------------------------------------------------------------------
(* calcTIR, calcPayback and calcROI called on any vector *)

RECURSIVE SeqsUpTo(_, _)
SeqsUpTo(S, n) ==
    IF n = 0 THEN {<<>>}
    ELSE SeqsUpTo(S, n - 1) \cup UNION {[1 .. n -> S]}

\* -A at month 0, +A at month 23, zero elsewhere
InOut(A) ==
    [m \in Months |-> IF m = 0 THEN R(-A)
                      ELSE IF m = NumMonths - 1 THEN R(A) ELSE Zero]

IntFlows(maxVal, maxLen) ==
    {ArrayOf([i \in DOMAIN s |-> R(s[i])]) : s \in SeqsUpTo(-maxVal .. maxVal, maxLen)}

FlowSet ==
    IntFlows(MaxVal, MaxLen)
      \cup {ArrayOf(<<R(-100), R(20), R(20), R(20), R(20), R(20)>>),
            ArrayOf(<<R(-200), R(50), R(50), R(50), R(50)>>),
            ArrayOf(<<R(-3), R(1)>>), ArrayOf(<<R(-32), R(1)>>),
            ArrayOf(<<R(-7), <<1, 3>>>>)}

TirFlowSet ==
    IntFlows(TirMaxVal, TirMaxLen)
      \cup {InOut(A) : A \in (1 .. MaxAmount) \cup {1000}}
      \cup {ArrayOf(<<R(-3), R(2)>>), ArrayOf(<<R(-2), R(3)>>),
            ArrayOf(<<R(-1), R(3)>>), ArrayOf(<<R(-100), R(60), R(60)>>)}

NoUnit == unit = Zero /\ catIdx = 0 /\ basePrice = Zero /\ cashFlow = NewArray

InitFlows ==
    /\ flows \in FlowSet
    /\ pc = "start" /\ rate = InitialRate /\ iter = 0
    /\ result = NumberResult(Zero)
    /\ config = DefaultConfig
    /\ NoUnit /\ ProgramAtRest

InitTIR ==
    /\ flows \in TirFlowSet
    /\ pc = "start" /\ rate = InitialRate /\ iter = 0
    /\ result = NumberResult(Zero)
    /\ config = DefaultConfig
    /\ NoUnit /\ ProgramAtRest

CallPayback ==
    /\ pc = "start"
    /\ result' = NumberResult(R(calcPayback(flows)))
    /\ pc' = "payback"
    /\ UNCHANGED <<config, units, chart, receitaTotal, payback, roi, unit,
                   catIdx, basePrice, cashFlow, flows, rate, iter>>

CallROI ==
    /\ pc = "start"
    /\ result' = calcROI(flows)
    /\ pc' = "roi"
    /\ UNCHANGED <<config, units, chart, receitaTotal, payback, roi, unit,
                   catIdx, basePrice, cashFlow, flows, rate, iter>>

NextMetrics == CallPayback \/ CallROI

SpecMetrics == InitFlows /\ [][NextMetrics]_vars

\* let rate = 0.01; for (let i = 0; ...
TirBegin ==
    /\ pc = "start"
    /\ rate' = InitialRate /\ iter' = 0
    /\ pc' = "loop"
    /\ UNCHANGED <<config, units, chart, receitaTotal, payback, roi, unit,
                   catIdx, basePrice, cashFlow, flows, result>>

\* if (Math.abs(npv) < tolerance) break;  return rate
TirBreak ==
    /\ pc = "loop" /\ iter < maxIter
    /\ NpvSmall(flows, rate)
    /\ pc' = "done"
    /\ UNCHANGED <<config, units, chart, receitaTotal, payback, roi, unit,
                   catIdx, basePrice, cashFlow, flows, rate, iter, result>>

\* rate += ...; rate = Math.max(rate, -0.99); i++
TirStep ==
    /\ pc = "loop" /\ iter < maxIter
    /\ ~NpvSmall(flows, rate)
    /\ rate' = StepRate(flows, rate)
    /\ iter' = iter + 1
    /\ UNCHANGED <<config, units, chart, receitaTotal, payback, roi, pc, unit,
                   catIdx, basePrice, cashFlow, flows, result>>

\* i < maxIter fails;  return rate
TirExhaust ==
    /\ pc = "loop" /\ iter >= maxIter
    /\ pc' = "done"
    /\ UNCHANGED <<config, units, chart, receitaTotal, payback, roi, unit,
                   catIdx, basePrice, cashFlow, flows, rate, iter, result>>

NextTIR == TirBegin \/ TirBreak \/ TirStep \/ TirExhaust

SpecTIR == InitTIR /\ [][NextTIR]_vars

-----------------------------------------------------------------------------
(* Properties *)

Built == pc = "built"

\* C1: for every configuration the array calcCashflowForUnit returns has
\* exactly 24 entries: its keys are the months 0..23 and nothing else.
C1_ExactlyTwentyFourEntries ==
    Built => (DOMAIN cashFlow = Months /\ Length(cashFlow) = NumMonths)

Discounted == pc = "discounted"

\* unitValue * (1 - pct / 100), written out on numerator and denominator
Discount(v, pct) == Norm(v[1] * (100 - pct), v[2] * 100)

\* C2: applyDiscount(v, i) is v less discountPre percent when
\* i < preLaunchMonths, else v less discountLaunch percent when
\* i < preLaunchMonths + launchMonths, else v; with preLaunchMonths = 2 and
\* launchMonths = 3, index 0 gets discountPre, 2 gets discountLaunch, 5 none.
C2_DiscountBands ==
    Discounted =>
        /\ basePrice =
             IF catIdx < config.preLaunchMonths
             THEN Discount(unit, config.discountPre)
             ELSE IF catIdx < config.preLaunchMonths + config.launchMonths
             THEN Discount(unit, config.discountLaunch)
             ELSE unit
        /\ (config.preLaunchMonths = 2 /\ config.launchMonths = 3) =>
             /\ catIdx = 0 => basePrice = Discount(unit, config.discountPre)
             /\ catIdx = 2 => basePrice = Discount(unit, config.discountLaunch)
             /\ catIdx = 5 => basePrice = unit

C2_Witness ==
    /\ Discounted
    /\ config.preLaunchMonths = 2 /\ config.launchMonths = 3
    /\ config.discountPre = 10 /\ config.discountLaunch = 5
    /\ catIdx = 2 /\ unit = R(300000)
    /\ basePrice = R(285000)

RECURSIVE IntPow(_, _)
IntPow(b, e) == IF e = 0 THEN 1 ELSE b * IntPow(b, e - 1)

\* the four legs of the current call, as what each puts on month m
LegPrice == applyDiscount(config, unit, catIdx)
LegAto(m) ==
    IF m = 0 THEN Norm(config.payAtoPct * LegPrice[1], 100 * LegPrice[2])
    ELSE Zero
LegEntrada(m) ==
    IF 1 <= m /\ m <= config.entradaMonths
    THEN Norm(config.entradaPct * LegPrice[1],
              100 * LegPrice[2] * config.entradaMonths)
    ELSE Zero
LegInter(m) ==
    IF m = config.payInterMonth /\ config.payInterPct > 0
    THEN Norm(config.payInterPct * LegPrice[1]
                * IntPow(1 + config.incc[1], config.payInterMonth),
              100 * LegPrice[2])
    ELSE Zero
LegChaves(m) ==
    IF m = 23
    THEN Norm(config.payChavesPct * LegPrice[1] * IntPow(1 + config.ipca[1], 23),
              100 * LegPrice[2])
    ELSE Zero

InRange ==
    /\ config.entradaMonths \in 1 .. 23
    /\ config.payInterMonth \in 0 .. 23

\* C3: with entradaMonths in 1..23 and payInterMonth in 0..23, the entry at
\* every month m in 0..23 is the sum of the legs that fall on m (ato at 0,
\* an entrada installment on 1..entradaMonths, the escalated intermediate
\* payment at payInterMonth when payInterPct > 0, the escalated chaves at
\* 23): legs on one month add up, a month with no leg is zero.
C3_EntryIsSumOfLegs ==
    (Built /\ InRange) =>
        /\ DOMAIN cashFlow = Months
        /\ \A m \in Months :
             cashFlow[m] =
               Add(Add(Add(LegAto(m), LegEntrada(m)), LegInter(m)), LegChaves(m))

C3_Witness ==
    /\ Built /\ InRange
    /\ config.entradaMonths = 23 /\ config.payInterMonth = 23
    /\ config.payInterPct > 0 /\ config.incc = R(0) /\ config.ipca = R(0)
    /\ catIdx = 0
    /\ cashFlow[23] = Add(Add(<<81000, 23>>, R(54000)), R(189000))
    /\ cashFlow[0] = R(27000)

\* C4: with entradaMonths = 0 no entrada installment is added to any month
\* and the quotient entradaTotal / 0 is in no entry: no entry is infinite,
\* the in-range months other than 0, payInterMonth and 23 stay zero.
C4_NoDivisionByZeroInEntries ==
    (Built /\ config.entradaMonths = 0) =>
        /\ \A k \in DOMAIN cashFlow : cashFlow[k] \notin {PosInf, NegInf}
        /\ \A m \in Months : IsFinite(cashFlow[m])
        /\ \A m \in Months :
             cashFlow[m] = Add(Add(LegAto(m), LegInter(m)), LegChaves(m))

C4_Witness ==
    /\ Built /\ config.entradaMonths = 0
    /\ Div(Mul(Div(R(config.entradaPct), R(100)), LegPrice),
           R(config.entradaMonths)) = PosInf
    /\ cashFlow[0] = R(27000) /\ cashFlow[1] = Zero
    /\ config.payInterMonth = 6

Done == pc = "done"

\* C5: calcTIR never runs more than 200 iterations and returns either on
\* the tolerance test or with its budget exhausted; the rate is never below
\* -0.99, so 1 + rate stays positive wherever NPV is evaluated.
C5_BoundedAndFloored ==
    /\ iter \in 0 .. maxIter
    /\ rate >= RateFloor /\ 100 + rate > 0
    /\ Done => (iter = maxIter \/ NpvSmall(flows, rate))

C5_Witness ==
    /\ Done /\ iter = maxIter /\ rate = RateFloor
    /\ ~NpvSmall(flows, rate)

IsInOut(a) ==
    /\ DOMAIN a = Months
    /\ Lt(a[0], Zero) /\ a[NumMonths - 1] = Neg(a[0])
    /\ Geq(a[NumMonths - 1], One)
    /\ \A m \in 1 .. (NumMonths - 2) : a[m] = Zero

\* C6: on a vector that is -A at month 0, +A at month 23 and zero
\* elsewhere (A >= 1), calcTIR stops on the tolerance test before its budget
\* ends and returns a rate of magnitude below 0.01; on the way the rate
\* only moves from 0.01 to 0.
C6_InOutConverges ==
    IsInOut(flows) =>
        /\ rate \in {0, InitialRate} /\ iter <= 1
        /\ Done => /\ iter < maxIter
                   /\ NpvSmall(flows, rate)
                   /\ -1 < rate /\ rate < 1

C6_Witness ==
    /\ Done /\ flows = InOut(1000) /\ rate = 0 /\ iter = 1

\* the running sum flows[0] + ... + flows[i]
PrefixSum(a, i) == SumUpTo(a, i + 1)

ReachedAt(a) == {i \in 0 .. (Length(a) - 1) : Geq(PrefixSum(a, i), Zero)}

\* C7: calcPayback(flows) is the smallest index whose running sum is >= 0,
\* and flows.length when there is none; every index below it has a negative
\* running sum; [-100, 20, 20, 20, 20, 20] gives 5.
C7_PaybackIsFirstNonNegativePrefix ==
    pc = "payback" =>
        /\ result.kind = "number"
        /\ \E i \in 0 .. Length(flows) :
             /\ result.value = R(i)
             /\ i < Length(flows) => i \in ReachedAt(flows)
             /\ i = Length(flows) => ReachedAt(flows) = {}
             /\ \A j \in 0 .. (i - 1) : Lt(PrefixSum(flows, j), Zero)
        /\ flows = ArrayOf(<<R(-100), R(20), R(20), R(20), R(20), R(20)>>)
             => result.value = R(5)

C7_Witness ==
    /\ pc = "payback"
    /\ flows = ArrayOf(<<R(-100), R(20), R(20), R(20), R(20), R(20)>>)
    /\ result.value = R(5)

\* -min(flows), the minimum taken as the entry no other entry is below
Invested(a) ==
    Neg(a[CHOOSE k \in DOMAIN a : \A j \in DOMAIN a : Leq(a[k], a[j])])

\* (sum(flows) / invested) * 100
RoiExact(a) == Div(Mul(Sum(a), R(100)), Invested(a))

RoiCalled == pc = "roi" /\ Length(flows) > 0

\* C8 as claimed: calcROI returns 0 when invested <= 0 and otherwise
\* exactly (sum(flows) / invested) * 100.
C8_RoiExact ==
    RoiCalled =>
        IF Leq(Invested(flows), Zero)
        THEN result = NumberResult(Zero)
        ELSE Norm(result.hundredths, 100) = RoiExact(flows)

\* C8 as amended: calcROI returns the number 0 when invested <= 0 and
\* otherwise the toFixed(2) string of (sum(flows) / invested) * 100, that
\* is the value rounded to the nearest hundredth (within 0.005 of it);
\* [-200, 50, 50, 50, 50] gives invested 200, total 0 and 0.00.
C8_RoiRounded ==
    RoiCalled =>
        /\ IF Leq(Invested(flows), Zero)
           THEN result = NumberResult(Zero)
           ELSE /\ result.kind = "string"
                /\ LET d == Sub(Norm(result.hundredths, 100), RoiExact(flows))
                   IN  Leq(d, <<1, 200>>) /\ Geq(d, <<-1, 200>>)
        /\ flows = ArrayOf(<<R(-200), R(50), R(50), R(50), R(50)>>)
             => /\ Invested(flows) = R(200) /\ Sum(flows) = Zero
                /\ result.kind = "string" /\ result.hundredths = 0

C8_Witness ==
    /\ RoiCalled
    /\ flows = ArrayOf(<<R(-3), R(1)>>)
    /\ result.kind = "string" /\ result.hundredths = -6667

Shown == pc = "idle"

\* the vector of the unit at position i of state.units (from 1)
UnitFlow(i) == calcCashflowForUnit(config, R(units[i]), i - 1)

\* entry m summed over the units from position i on, last unit first
RECURSIVE ColumnSum(_, _)
ColumnSum(m, i) ==
    IF i > Len(units) THEN Zero
    ELSE Add(ColumnSum(m, i + 1), UnitFlow(i)[m])

NonNegativeInputs ==
    /\ \A i \in DOMAIN units : units[i] >= 0
    /\ \A f \in {"entradaPct", "payAtoPct", "payInterPct", "payChavesPct",
                 "discountPre", "discountLaunch"} : config[f] \in 0 .. 100
    /\ Geq(config.incc, Zero) /\ Geq(config.ipca, Zero)
    /\ InRange

\* C10: with non-negative unit values, percentages in 0..100, rates >= 0,
\* entradaMonths in 1..23 and payInterMonth in 0..23, every entry of the
\* aggregate is >= 0, calcPayback on it gives 0 and calcROI on it gives 0.
C10_NonNegativeAggregate ==
    (Shown /\ NonNegativeInputs) =>
        /\ \A m \in DOMAIN chart : Geq(chart[m], Zero)
        /\ payback = 0
        /\ roi = NumberResult(Zero)

C10_Witness ==
    /\ Shown /\ NonNegativeInputs
    /\ units = LoadedUnits
    /\ config.incc = R(1) /\ config.payInterPct = 20
    /\ Gt(chart[2], Zero) /\ Gt(chart[23], Zero)
    /\ payback = 0

====
